---- MODULE Spec2Model ----
(***************************************************************************)
(* Model of the background_worker WorkSystem (crates/background_worker)   *)
(* and of the TextGenerator built on it (api_test/src/font.rs).            *)
(*                                                                         *)
(* Threads: one frame thread, which calls into the TextGenerator and the  *)
(* WorkSystem, and NumWorkers worker threads running the loop spawned by  *)
(* WorkSystem::new.  A Rust panic on a worker kills that worker and        *)
(* poisons the mutexes it holds; a panic on the frame thread ends the      *)
(* process.                                                                *)
(***************************************************************************)
EXTENDS Integers, Sequences, FiniteSets, TLC

\* ------------------------------------------------------------------ bounds
\* Total number of add_work calls (channels created) in one behaviour.
MaxSubmits == 3
\* Largest number of successful TextGenerator::load_font calls.
MaxFonts == 2
\* Number of add_work calls of the backpressure scenario.
MaxBlockingJobs == 5
\* Number of register_callback_with_state calls of one registering thread.
MaxRegistrations == 2

\* --------------------------------------------------------- program constants
\* Ui::new builds the pool with WorkSystem::new(2).
NumWorkers == 2
Workers == 1..NumWorkers
\* A variant of the work queue with one slot more than there are workers.
QueueCapacityPlusOne == NumWorkers + 1

\* WorkSystem::new: bounded(num_workers)
QueueCapacity == NumWorkers

\* A thread other than the workers and the submitter, which can hold the
\* shared-state mutex of a callback (as the test thread does with
\* state.lock() in tests::test_basic_callback_with_state).
Holder == NumWorkers + 1

\* The threads that register callbacks concurrently, and the callbacks they
\* pass (those TextGenerator::new registers).
Registrars == 1..2
CallbackNames == {"job_load_font", "job_generate_text"}
\* The identity of registering thread t as owner of a mutex.
RegistrarThread(t) == Holder + t

\* The identity of the frame thread as owner of a mutex.
FrameThread == RegistrarThread(Cardinality(Registrars)) + 1

\* The two job kinds registered by TextGenerator::new, in this order.
load_font_async_id == 0
gen_text_async_id == 1
\* A kind index no registration ever returned (tests::test_callback_not_found).
UnregisteredId == 999

\* ------------------------------------------------------------------ inputs
\* Font files known to the (opaque) font backend: the face each one holds.
\* A path outside the domain yields no face.
FontFiles ==
    [p \in {"Sans-Thin.ttf"} |-> [family |-> "Sans", weight |-> 100]]
Paths == {"Sans-Thin.ttf", "missing.ttf"}
Texts == {"Hi", "Hello"}
Sizes == {24}
FontHandles == {1}

\* ----------------------------------------------------------------- options
None == [some |-> FALSE]
Some(v) == [some |-> TRUE, val |-> v]
Ok(v) == [ok |-> TRUE, val |-> v]
Err(e) == [ok |-> FALSE, err |-> e]
CallbackNotFound(id) == [kind |-> "CallbackNotFound", id |-> id]
Unit == [unit |-> TRUE]
NoThread == 0
NoJob == [none |-> TRUE]
NoCall == [op |-> "none"]

VARIABLES
    \* WorkSystem
    callbacks,      \* registry: sequence of slots, slot id is at index id + 1
    id_counter,     \* next kind index
    callbacks_lock, \* the registry mutex: [owner, poisoned]
    queue,          \* the bounded work channel (capacity NumWorkers)
    chans,          \* the per-submission response channels, by creation order
    wpc,            \* position of each worker in its loop
    wjob,           \* the submission a worker has received
    wres,           \* the callback result a worker is about to send
    \* AsyncState behind Arc<Mutex<..>>
    state_lock,     \* the shared-state mutex: [owner, poisoned]
    loaded_fonts,   \* AsyncState.loaded_fonts
    \* TextGenerator
    sync_loaded_fonts,
    cached_strings,
    inflight_text_generations,
    font_id_counter,
    text_buffers_id,
    \* frame thread
    fpc,            \* position of the frame thread
    fcall,          \* the call the frame thread is inside
    ret,            \* what the last completed call returned
    \* history of what the frame thread observed
    upd_ready,      \* keys whose work was complete when the last update() began
    upd_ids,        \* key -> identifier in the cache when the last update() returned
    first_cached,   \* key -> artifact in the cache when a call could first see it
    issued,         \* the handles returned by load_font, in the order of the calls
    \* threads that call register_callback_with_state
    reg,            \* per thread: position, the id it fetched, the callback it
                    \* passes, and the (id, callback) pairs its calls returned
    \* Ui
    frame           \* where the frame thread is in the Ui frame (outside,
                    \* between begin and end, inside end's render pass) and
                    \* how often begin has called update() in this frame

poolVars == <<callbacks, id_counter, callbacks_lock, queue, chans, wpc, wjob, wres>>
asyncVars == <<state_lock, loaded_fonts>>
genVars == <<sync_loaded_fonts, cached_strings, inflight_text_generations,
             font_id_counter, text_buffers_id>>
frameVars == <<fpc, fcall, ret>>
histVars == <<upd_ready, upd_ids, first_cached>>
vars == <<poolVars, asyncVars, genVars, frameVars, histVars, issued, reg, frame>>

\* ------------------------------------------------------------ finite maps
EmptyMap == [x \in {} |-> 0]
Put(m, k, v) == [x \in (DOMAIN m) \cup {k} |-> IF x = k THEN v ELSE m[x]]

\* ------------------------------------------------------------------- font.rs
GeneratorConfig(font_id, text, size) ==
    [font_handle |-> font_id, text |-> text, size |-> size,
     sub_pixel_steps_x |-> 1, sub_pixel_steps_y |-> 1]

Keys == {GeneratorConfig(f, t, s) : f \in FontHandles, t \in Texts, s \in Sizes}

\* Weight::EXTRA_LIGHT replaces the face's weight when the path contains "Thin".
PathContainsThin(path) == path \in {"Sans-Thin.ttf"}

\* fn load_font: the registry after loading, or an error when the path
\* yields no face.
load_font(id, font_path, fonts) ==
    IF font_path \notin DOMAIN FontFiles
    THEN Err("GenericError")
    ELSE LET face == FontFiles[font_path]
             weight == IF PathContainsThin(font_path) THEN 200 ELSE face.weight
             attrs == [family |-> face.family, weight |-> weight]
         IN Ok(Put(fonts, id, [attrs |-> attrs]))

\* Width and height of the shaped text, truncated to whole pixels.
ShapedWidth(text, font_size) == (Len(text) * font_size) \div 2
ShapedHeight(line_height) == line_height

\* fn generate_text: the artifact, or a panic when Pixmap::new refuses a
\* zero-sized pixmap.
generate_text(text, font_info, font_size, line_height) ==
    LET width == ShapedWidth(text, font_size)
        height == ShapedHeight(line_height)
    IN IF width = 0 \/ height = 0
       THEN [panic |-> TRUE]
       ELSE [panic |-> FALSE,
             res |-> Ok([data |-> <<text, font_info.attrs, font_size, line_height>>,
                         stride |-> width, width |-> width, height |-> height,
                         sub_pixel_step_x |-> 1, sub_pixel_step_y |-> 1,
                         id |-> 0])]

\* size as f32 * 1.1, truncated
LineHeight(size) == (size * 11) \div 10

\* fn job_generate_text: panics when the font is not in the render-side registry.
job_generate_text(data, fonts) ==
    IF data.font_handle \in DOMAIN fonts
    THEN generate_text(data.text, fonts[data.font_handle], data.size,
                       LineHeight(data.size))
         @@ [fonts |-> fonts]
    ELSE [panic |-> TRUE]

\* fn job_load_font: unwraps the load, so a failed load panics.
job_load_font(config, fonts) ==
    LET r == load_font(config.font_id, config.font_path, fonts)
    IN IF r.ok
       THEN [panic |-> FALSE, res |-> Ok(Unit), fonts |-> r.val]
       ELSE [panic |-> TRUE]

\* ------------------------------------------------------------------- lib.rs
\* A variant of the add_work lookup that accepts every kind index.
IsRegisteredAlways(cbs, id) == TRUE

\* add_work: callbacks.get(id).is_some_and(|callback| callback.is_some())
IsRegistered(cbs, id) ==
    id >= 0 /\ id < Len(cbs) /\ cbs[id + 1] # "None"

\* worker loop: if let Some(Some((callback, state))) = callbacks.get(id)
Lookup(cbs, id) ==
    IF id >= 0 /\ id < Len(cbs) THEN cbs[id + 1] ELSE "None"

\* CallbackError::InvalidDataType
InvalidDataType == [kind |-> "InvalidDataType"]

\* A payload of add_work, boxed as dyn Any: the value with its type.
Payload(type, val) == [type |-> type, val |-> val]

\* A variant of the test callback that unwraps the downcast of its payload.
add_to_counter_unwraps(data, counter) ==
    IF data.type # "usize"
    THEN [panic |-> TRUE]
    ELSE [panic |-> FALSE, res |-> Ok(counter + data.val),
          fonts |-> counter + data.val]

\* The callback of tests::test_basic_callback_with_state: it downcasts its
\* payload to usize - InvalidDataType when it is of another type -, locks the
\* shared counter, adds its input and returns the new value.
add_to_counter(data, counter) ==
    IF data.type # "usize"
    THEN [panic |-> FALSE, res |-> Err(InvalidDataType), fonts |-> counter]
    ELSE [panic |-> FALSE, res |-> Ok(counter + data.val),
          fonts |-> counter + data.val]

\* The callback is over before it locks the shared state: the test callback
\* leaves through the ? of its downcast, ahead of state.lock().
ReturnsBeforeLock(name, data, fonts) ==
    /\ name = "add_to_counter"
    /\ LET r == add_to_counter(data, fonts) IN ~r.panic /\ ~r.res.ok

\* The callback stored in a slot, applied to a payload and the shared state.
Callback(name, data, fonts) ==
    IF name = "job_load_font" THEN job_load_font(data, fonts)
    ELSE IF name = "job_generate_text" THEN job_generate_text(data, fonts)
    ELSE add_to_counter(data, fonts)

\* bounded(1): a fresh response channel, with what was submitted on it.
NewChan(id, data) ==
    [id |-> id, data |-> data, buf |-> <<>>, sent |-> 0, outcome |-> None,
     invoked |-> 0, sender |-> "alive", receiver |-> "alive"]

\* Sender::send on a response channel: the message is kept unless the
\* receiver is gone; the sender is dropped afterwards.
ChanSend(c, outcome) ==
    IF c.receiver = "alive"
    THEN [c EXCEPT !.buf = Append(@, outcome), !.sent = @ + 1,
                   !.outcome = Some(outcome), !.sender = "dropped"]
    ELSE [c EXCEPT !.sender = "dropped"]

\* A variant of the response channel without a buffer slot: a send completes
\* only when the receiver is gone.
CanSendUnbuffered(c) == Len(c.buf) < 0 \/ c.receiver = "dropped"

\* A send on a response channel can complete: there is room, or no receiver.
CanSend(c) == Len(c.buf) < 1 \/ c.receiver = "dropped"

AllWorkersDead == \A w \in Workers : wpc[w] = "dead"

Init ==
    /\ callbacks = <<"job_load_font", "job_generate_text">>
    /\ id_counter = 2
    /\ callbacks_lock = [owner |-> NoThread, poisoned |-> FALSE]
    /\ queue = <<>>
    /\ chans = <<>>
    /\ wpc = [w \in Workers |-> "recv"]
    /\ wjob = [w \in Workers |-> NoJob]
    /\ wres = [w \in Workers |-> NoJob]
    /\ state_lock = [owner |-> NoThread, poisoned |-> FALSE]
    /\ loaded_fonts = EmptyMap
    /\ sync_loaded_fonts = EmptyMap
    /\ cached_strings = EmptyMap
    /\ inflight_text_generations = <<>>
    /\ font_id_counter = 1
    /\ text_buffers_id = 1
    /\ fpc = "idle"
    /\ fcall = NoCall
    /\ ret = [op |-> "new"]
    /\ upd_ready = {}
    /\ upd_ids = EmptyMap
    /\ first_cached = EmptyMap
    /\ issued = <<>>
    /\ reg = [t \in Registrars |->
                 [pc |-> "idle", id |-> 0, name |-> "None", returned |-> <<>>]]
    /\ frame = [phase |-> "outside", updates |-> 0]

\* ------------------------------------------------------------ worker loop
\* A worker thread unwinds: it is gone, and the response sender it held for
\* the submission it had received is dropped without a send.
DropSender(cs, job) ==
    IF job = NoJob THEN cs ELSE [cs EXCEPT ![job.chan].sender = "dropped"]

\* A variant of the receive step that pairs the oldest submission's payload
\* with the response sender of the newest one.
WorkerRecvCrossed(w) ==
    /\ fpc # "crashed"
    /\ wpc[w] = "recv"
    /\ queue # <<>>
    /\ wjob' = [wjob EXCEPT ![w] =
                   [Head(queue) EXCEPT !.chan = queue[Len(queue)].chan]]
    /\ queue' = Tail(queue)
    /\ wpc' = [wpc EXCEPT ![w] = "lock"]
    /\ UNCHANGED <<callbacks, id_counter, callbacks_lock, chans, wres>>
    /\ UNCHANGED <<asyncVars, genVars, frameVars, histVars, issued, reg, frame>>

\* A variant of the receive step that leaves the submission in the queue,
\* where a second receive finds it again.
WorkerRecvPeeks(w) ==
    /\ fpc # "crashed"
    /\ wpc[w] = "recv"
    /\ queue # <<>>
    /\ wjob' = [wjob EXCEPT ![w] = Head(queue)]
    /\ wpc' = [wpc EXCEPT ![w] = "lock"]
    /\ UNCHANGED <<callbacks, id_counter, callbacks_lock, queue, chans, wres>>
    /\ UNCHANGED <<asyncVars, genVars, frameVars, histVars, issued, reg, frame>>

\* A variant of the receive step that takes the newest queued submission.
WorkerRecvNewest(w) ==
    /\ fpc # "crashed"
    /\ wpc[w] = "recv"
    /\ queue # <<>>
    /\ wjob' = [wjob EXCEPT ![w] = queue[Len(queue)]]
    /\ queue' = SubSeq(queue, 1, Len(queue) - 1)
    /\ wpc' = [wpc EXCEPT ![w] = "lock"]
    /\ UNCHANGED <<callbacks, id_counter, callbacks_lock, chans, wres>>
    /\ UNCHANGED <<asyncVars, genVars, frameVars, histVars, issued, reg, frame>>

\* worker_receiver.recv(): take the oldest queued submission.  (Every worker
\* step requires that the process is still running.)
WorkerRecv(w) ==
    /\ fpc # "crashed"
    /\ wpc[w] = "recv"
    /\ queue # <<>>
    /\ wjob' = [wjob EXCEPT ![w] = Head(queue)]
    /\ queue' = Tail(queue)
    /\ wpc' = [wpc EXCEPT ![w] = "lock"]
    /\ UNCHANGED <<callbacks, id_counter, callbacks_lock, chans, wres>>
    /\ UNCHANGED <<asyncVars, genVars, frameVars, histVars, issued, reg, frame>>

\* worker_callbacks.lock().unwrap().get(id): the guard lives as long as the
\* if-let, so on a hit the registry stays locked while the callback runs.
WorkerLock(w) ==
    /\ fpc # "crashed"
    /\ wpc[w] = "lock"
    /\ callbacks_lock.owner = NoThread
    /\ IF callbacks_lock.poisoned
       THEN /\ wpc' = [wpc EXCEPT ![w] = "dead"]
            /\ chans' = DropSender(chans, wjob[w])
            /\ wjob' = [wjob EXCEPT ![w] = NoJob]
            /\ UNCHANGED callbacks_lock
       ELSE IF Lookup(callbacks, wjob[w].id) # "None"
       THEN /\ callbacks_lock' = [callbacks_lock EXCEPT !.owner = w]
            /\ wpc' = [wpc EXCEPT ![w] = "call"]
            /\ UNCHANGED <<chans, wjob>>
       ELSE /\ CanSend(chans[wjob[w].chan])
            /\ chans' = [chans EXCEPT ![wjob[w].chan] =
                            ChanSend(@, Err(CallbackNotFound(wjob[w].id)))]
            /\ wpc' = [wpc EXCEPT ![w] = "recv"]
            /\ wjob' = [wjob EXCEPT ![w] = NoJob]
            /\ UNCHANGED callbacks_lock
    /\ UNCHANGED <<callbacks, id_counter, queue, wres>>
    /\ UNCHANGED <<asyncVars, genVars, frameVars, histVars, issued, reg, frame>>

\* A variant of the entry into the callback in which the job body works on
\* the shared state without taking its mutex.
WorkerCallNoLock(w) ==
    /\ fpc # "crashed"
    /\ wpc[w] = "call"
    /\ wpc' = [wpc EXCEPT ![w] = "body"]
    /\ chans' = [chans EXCEPT ![wjob[w].chan].invoked = @ + 1]
    /\ UNCHANGED <<callbacks, id_counter, callbacks_lock, queue, wjob, wres>>
    /\ UNCHANGED <<asyncVars, genVars, frameVars, histVars, issued, reg, frame>>

\* callback(data, state) is entered: the job body takes the shared-state
\* mutex with state.lock().unwrap().
WorkerCall(w) ==
    /\ fpc # "crashed"
    /\ wpc[w] = "call"
    /\ IF ReturnsBeforeLock(Lookup(callbacks, wjob[w].id), wjob[w].data,
                            loaded_fonts)
       THEN /\ wpc' = [wpc EXCEPT ![w] = "send"]
            /\ wres' = [wres EXCEPT ![w] =
                           Callback(Lookup(callbacks, wjob[w].id), wjob[w].data,
                                    loaded_fonts).res]
            /\ chans' = [chans EXCEPT ![wjob[w].chan].invoked = @ + 1]
            /\ UNCHANGED <<state_lock, callbacks_lock, wjob>>
       ELSE /\ state_lock.owner = NoThread
            /\ IF state_lock.poisoned
               THEN /\ wpc' = [wpc EXCEPT ![w] = "dead"]
                    /\ callbacks_lock' = [owner |-> NoThread, poisoned |-> TRUE]
                    /\ chans' = DropSender(
                                    [chans EXCEPT ![wjob[w].chan].invoked = @ + 1],
                                    wjob[w])
                    /\ wjob' = [wjob EXCEPT ![w] = NoJob]
                    /\ UNCHANGED <<state_lock, wres>>
               ELSE /\ state_lock' = [state_lock EXCEPT !.owner = w]
                    /\ wpc' = [wpc EXCEPT ![w] = "body"]
                    /\ chans' = [chans EXCEPT ![wjob[w].chan].invoked = @ + 1]
                    /\ UNCHANGED <<callbacks_lock, wjob, wres>>
    /\ UNCHANGED <<callbacks, id_counter, queue>>
    /\ UNCHANGED <<loaded_fonts, genVars, frameVars, histVars, issued, reg, frame>>

\* The job body runs under both mutexes.  It returns a result, or it panics:
\* the unwinding poisons both mutexes, drops the response sender and ends
\* the worker thread.
WorkerBody(w) ==
    /\ fpc # "crashed"
    /\ wpc[w] = "body"
    /\ LET r == Callback(Lookup(callbacks, wjob[w].id), wjob[w].data, loaded_fonts)
       IN IF r.panic
          THEN /\ wpc' = [wpc EXCEPT ![w] = "dead"]
               /\ state_lock' = [owner |-> NoThread, poisoned |-> TRUE]
               /\ callbacks_lock' = [owner |-> NoThread, poisoned |-> TRUE]
               /\ chans' = DropSender(chans, wjob[w])
               /\ wjob' = [wjob EXCEPT ![w] = NoJob]
               /\ UNCHANGED <<loaded_fonts, wres>>
          ELSE /\ wpc' = [wpc EXCEPT ![w] = "send"]
               /\ state_lock' = [state_lock EXCEPT !.owner = NoThread]
               /\ loaded_fonts' = r.fonts
               /\ wres' = [wres EXCEPT ![w] = r.res]
               /\ UNCHANGED <<callbacks_lock, chans, wjob>>
    /\ UNCHANGED <<callbacks, id_counter, queue>>
    /\ UNCHANGED <<genVars, frameVars, histVars, issued, reg, frame>>

\* response_sender.send(result), then the if-let ends and the registry
\* guard is released.
WorkerSend(w) ==
    /\ fpc # "crashed"
    /\ wpc[w] = "send"
    /\ CanSend(chans[wjob[w].chan])
    /\ chans' = [chans EXCEPT ![wjob[w].chan] = ChanSend(@, wres[w])]
    /\ callbacks_lock' = [callbacks_lock EXCEPT !.owner = NoThread]
    /\ wpc' = [wpc EXCEPT ![w] = "recv"]
    /\ wjob' = [wjob EXCEPT ![w] = NoJob]
    /\ wres' = [wres EXCEPT ![w] = NoJob]
    /\ UNCHANGED <<callbacks, id_counter, queue>>
    /\ UNCHANGED <<asyncVars, genVars, frameVars, histVars, issued, reg, frame>>

\* ------------------------------------------------- frame thread: add_work
\* The keys of the in-flight list.
InflightKeys == {inflight_text_generations[i].config :
                    i \in 1..Len(inflight_text_generations)}

\* A variant of TextGenerator::load_font that leaves the counter where it is.
NextFontIdSame(c) == c

\* TextGenerator::load_font: self.font_id_counter += 1
NextFontId(c) == c + 1

\* A variant of the push that stores the entry twice.
PushTwice(list, entry) == Append(Append(list, entry), entry)

\* self.inflight_text_generations.push(inflight)
Push(list, entry) == Append(list, entry)

\* What the caller of add_work does with the returned receiver, given the
\* response channels cs as add_work left them:
\*   load_font drops the receiver, advances font_id_counter, returns the handle;
\*   queue_generate_text pushes the in-flight entry and returns None;
\*   a direct caller keeps the receiver.
AddWorkReturn(cs) ==
    /\ fpc' = "idle"
    /\ fcall' = NoCall
    /\ CASE fcall.op = "load_font" ->
              /\ chans' = [cs EXCEPT ![fcall.chan].receiver = "dropped"]
              /\ font_id_counter' = NextFontId(font_id_counter)
              /\ ret' = [op |-> "load_font", val |-> Ok(fcall.data.font_id)]
              /\ issued' = Append(issued, fcall.data.font_id)
              /\ UNCHANGED inflight_text_generations
         [] fcall.op = "queue_generate_text" ->
              /\ chans' = cs
              /\ inflight_text_generations' =
                    Push(inflight_text_generations,
                         [config |-> fcall.data, receiver |-> fcall.chan])
              /\ ret' = [op |-> "queue_generate_text", key |-> fcall.data,
                         val |-> None, submitted |-> TRUE,
                         was_inflight |-> fcall.was_inflight]
              /\ UNCHANGED <<font_id_counter, issued>>
         [] OTHER ->
              /\ chans' = cs
              /\ ret' = [op |-> "add_work", id |-> fcall.id, chan |-> fcall.chan]
              /\ UNCHANGED <<font_id_counter, inflight_text_generations, issued>>

\* A variant of the first half of add_work without the else: the error is
\* sent on the response channel for a registered kind too.
AddWorkLockNoElse ==
    /\ fpc = "add_work_lock"
    /\ callbacks_lock.owner = NoThread
    /\ IF callbacks_lock.poisoned
       THEN /\ fpc' = "crashed"
            /\ UNCHANGED <<fcall, ret, chans, font_id_counter,
                           inflight_text_generations, issued>>
       ELSE IF IsRegistered(callbacks, fcall.id)
       THEN /\ fpc' = "add_work_send"
            /\ chans' = [chans EXCEPT ![fcall.chan] =
                            ChanSend(@, Err(CallbackNotFound(fcall.id)))]
            /\ UNCHANGED <<fcall, ret, font_id_counter,
                           inflight_text_generations, issued>>
       ELSE AddWorkReturn([chans EXCEPT ![fcall.chan] =
                              ChanSend(@, Err(CallbackNotFound(fcall.id)))])
    /\ UNCHANGED <<callbacks, id_counter, callbacks_lock, queue, wpc, wjob, wres>>
    /\ UNCHANGED <<asyncVars, sync_loaded_fonts, cached_strings, text_buffers_id>>
    /\ UNCHANGED <<histVars, reg, frame>>

\* A variant of the first half of add_work that keeps the registry guard
\* while it goes on to send on the work queue.
AddWorkLockKeepsGuard ==
    /\ fpc = "add_work_lock"
    /\ callbacks_lock.owner = NoThread
    /\ IF callbacks_lock.poisoned
       THEN /\ fpc' = "crashed"
            /\ UNCHANGED <<fcall, ret, chans, font_id_counter, callbacks_lock,
                           inflight_text_generations, issued>>
       ELSE IF IsRegistered(callbacks, fcall.id)
       THEN /\ fpc' = "add_work_send"
            /\ callbacks_lock' = [callbacks_lock EXCEPT !.owner = FrameThread]
            /\ UNCHANGED <<fcall, ret, chans, font_id_counter,
                           inflight_text_generations, issued>>
       ELSE /\ AddWorkReturn([chans EXCEPT ![fcall.chan] =
                                 ChanSend(@, Err(CallbackNotFound(fcall.id)))])
            /\ UNCHANGED callbacks_lock
    /\ UNCHANGED <<callbacks, id_counter, queue, wpc, wjob, wres>>
    /\ UNCHANGED <<asyncVars, sync_loaded_fonts, cached_strings, text_buffers_id>>
    /\ UNCHANGED <<histVars, reg, frame>>

\* add_work, first half: bounded(1) was created by the caller's step; lock the
\* registry, look the kind up, release.  An unknown kind gets its error on
\* the response channel here and add_work returns.  A poisoned registry
\* mutex makes lock().unwrap() panic on the frame thread.
AddWorkLock ==
    /\ fpc = "add_work_lock"
    /\ callbacks_lock.owner = NoThread
    /\ IF callbacks_lock.poisoned
       THEN /\ fpc' = "crashed"
            /\ UNCHANGED <<fcall, ret, chans, font_id_counter,
                           inflight_text_generations, issued>>
       ELSE IF IsRegistered(callbacks, fcall.id)
       THEN /\ fpc' = "add_work_send"
            /\ UNCHANGED <<fcall, ret, chans, font_id_counter,
                           inflight_text_generations, issued>>
       ELSE AddWorkReturn([chans EXCEPT ![fcall.chan] =
                              ChanSend(@, Err(CallbackNotFound(fcall.id)))])
    /\ UNCHANGED <<callbacks, id_counter, callbacks_lock, queue, wpc, wjob, wres>>
    /\ UNCHANGED <<asyncVars, sync_loaded_fonts, cached_strings, text_buffers_id>>
    /\ UNCHANGED <<histVars, reg, frame>>

\* add_work, second half: self.sender.send(..).expect(..) on the bounded
\* work queue.  It waits while the queue is full, and fails - a panic on the
\* frame thread - once every worker has gone.
AddWorkSend ==
    /\ fpc = "add_work_send"
    /\ AllWorkersDead \/ Len(queue) < QueueCapacity
    /\ IF AllWorkersDead
       THEN /\ fpc' = "crashed"
            /\ UNCHANGED <<fcall, ret, chans, queue, font_id_counter,
                           inflight_text_generations, issued>>
       ELSE /\ queue' = Append(queue, [id |-> fcall.id, data |-> fcall.data,
                                        chan |-> fcall.chan])
            /\ AddWorkReturn(chans)
    /\ UNCHANGED <<callbacks, id_counter, callbacks_lock, wpc, wjob, wres>>
    /\ UNCHANGED <<asyncVars, sync_loaded_fonts, cached_strings, text_buffers_id>>
    /\ UNCHANGED <<histVars, reg, frame>>

\* A direct add_work call with a kind index that was never registered.
AddWorkUnregistered ==
    /\ fpc = "idle"
    /\ Len(chans) < MaxSubmits
    /\ chans' = Append(chans, NewChan(UnregisteredId, "Test data"))
    /\ fpc' = "add_work_lock"
    /\ fcall' = [op |-> "add_work", id |-> UnregisteredId, data |-> "Test data",
                 chan |-> Len(chans) + 1]
    /\ UNCHANGED <<callbacks, id_counter, callbacks_lock, queue, wpc, wjob, wres>>
    /\ UNCHANGED <<asyncVars, genVars, ret, histVars, issued, reg, frame>>

\* ------------------------------------------- frame thread: TextGenerator
\* A variant of TextGenerator::load_font that advances font_id_counter before
\* the synchronous load, so a failed load consumes a handle.
LoadFontConsumesHandle(path) ==
    /\ fpc = "idle"
    /\ font_id_counter <= MaxFonts
    /\ LET font_id == font_id_counter
           r == load_font(font_id, path, sync_loaded_fonts)
       IN IF ~r.ok
          THEN /\ ret' = [op |-> "load_font", val |-> r]
               /\ font_id_counter' = font_id_counter + 1
               /\ UNCHANGED <<chans, fpc, fcall, sync_loaded_fonts>>
          ELSE /\ Len(chans) < MaxSubmits
               /\ sync_loaded_fonts' = r.val
               /\ chans' = Append(chans,
                      NewChan(load_font_async_id,
                              [font_id |-> font_id, font_path |-> path]))
               /\ fpc' = "add_work_lock"
               /\ fcall' = [op |-> "load_font", id |-> load_font_async_id,
                            data |-> [font_id |-> font_id, font_path |-> path],
                            chan |-> Len(chans) + 1]
               /\ UNCHANGED <<ret, font_id_counter>>
    /\ UNCHANGED <<callbacks, id_counter, callbacks_lock, queue, wpc, wjob, wres>>
    /\ UNCHANGED <<asyncVars, cached_strings, inflight_text_generations,
                   text_buffers_id, histVars, issued, reg, frame>>

\* TextGenerator::load_font up to the add_work call.
LoadFont(path) ==
    /\ fpc = "idle"
    /\ LET font_id == font_id_counter
           r == load_font(font_id, path, sync_loaded_fonts)
       IN IF ~r.ok
          THEN /\ ret' = [op |-> "load_font", val |-> r]
               /\ UNCHANGED <<chans, fpc, fcall, sync_loaded_fonts>>
          ELSE /\ font_id_counter <= MaxFonts
               /\ Len(chans) < MaxSubmits
               /\ sync_loaded_fonts' = r.val
               /\ chans' = Append(chans,
                      NewChan(load_font_async_id,
                              [font_id |-> font_id, font_path |-> path]))
               /\ fpc' = "add_work_lock"
               /\ fcall' = [op |-> "load_font", id |-> load_font_async_id,
                            data |-> [font_id |-> font_id, font_path |-> path],
                            chan |-> Len(chans) + 1]
               /\ UNCHANGED ret
    /\ UNCHANGED <<callbacks, id_counter, callbacks_lock, queue, wpc, wjob, wres>>
    /\ UNCHANGED <<asyncVars, cached_strings, inflight_text_generations,
                   font_id_counter, text_buffers_id, histVars, issued, reg, frame>>

\* fn measure_string_size: width of the widest layout run and the sum of the
\* line heights; it always returns a size.
measure_string_size(text, font_info, font_size, line_height) ==
    Some([width |-> ShapedWidth(text, font_size),
          height |-> ShapedHeight(line_height)])

\* A variant of measure_text_size that looks the handle up in the render-side
\* registry.
MeasureTextSizeAsync(text, font_id, font_size) ==
    /\ fpc = "idle"
    /\ ret' = [op |-> "measure_text_size", font_id |-> font_id,
               val |-> IF font_id \in DOMAIN loaded_fonts
                       THEN measure_string_size(text, loaded_fonts[font_id],
                                                font_size, LineHeight(font_size))
                       ELSE None]
    /\ UNCHANGED <<poolVars, asyncVars, genVars, fpc, fcall, histVars, issued,
                   reg, frame>>

\* TextGenerator::measure_text_size
MeasureTextSize(text, font_id, font_size) ==
    /\ fpc = "idle"
    /\ ret' = [op |-> "measure_text_size", font_id |-> font_id,
               val |-> IF font_id \in DOMAIN sync_loaded_fonts
                       THEN measure_string_size(text, sync_loaded_fonts[font_id],
                                                font_size, LineHeight(font_size))
                       ELSE None]
    /\ UNCHANGED <<poolVars, asyncVars, genVars, fpc, fcall, histVars, issued,
                   reg, frame>>

\* self.cached_strings.get(&gen_config)
CacheGet(cache, key) ==
    IF key \in DOMAIN cache THEN Some(cache[key]) ELSE None

\* TextGenerator::queue_generate_text up to the add_work call: a cache hit
\* returns a clone, anything else submits a render job.
QueueGenerateText(text, size, font_id) ==
    /\ fpc = "idle"
    /\ LET gen_config == GeneratorConfig(font_id, text, size)
           hit == CacheGet(cached_strings, gen_config)
       IN IF hit.some
          THEN /\ ret' = [op |-> "queue_generate_text", key |-> gen_config,
                          val |-> hit, submitted |-> FALSE,
                          was_inflight |-> gen_config \in InflightKeys]
               /\ UNCHANGED <<chans, fpc, fcall>>
          ELSE /\ Len(chans) < MaxSubmits
               /\ chans' = Append(chans, NewChan(gen_text_async_id, gen_config))
               /\ fpc' = "add_work_lock"
               /\ fcall' = [op |-> "queue_generate_text", id |-> gen_text_async_id,
                            data |-> gen_config, chan |-> Len(chans) + 1,
                            was_inflight |-> gen_config \in InflightKeys]
               /\ UNCHANGED ret
    /\ UNCHANGED <<callbacks, id_counter, callbacks_lock, queue, wpc, wjob, wres>>
    /\ UNCHANGED <<asyncVars, genVars, histVars, issued, reg, frame>>

\* A variant of get_text that takes the artifact out of the cache.
GetTextRemoves(text, size, font_id) ==
    /\ fpc = "idle"
    /\ LET gen_config == GeneratorConfig(font_id, text, size)
           hit == CacheGet(cached_strings, gen_config)
       IN /\ ret' = [op |-> "get_text", key |-> gen_config, val |-> hit]
          /\ cached_strings' =
                [k \in DOMAIN cached_strings \ {gen_config} |-> cached_strings[k]]
    /\ UNCHANGED <<poolVars, asyncVars, sync_loaded_fonts,
                   inflight_text_generations, font_id_counter, text_buffers_id,
                   fpc, fcall, histVars, issued, reg, frame>>

\* TextGenerator::get_text
GetText(text, size, font_id) ==
    /\ fpc = "idle"
    /\ LET gen_config == GeneratorConfig(font_id, text, size)
           hit == CacheGet(cached_strings, gen_config)
       IN ret' = [op |-> "get_text", key |-> gen_config, val |-> hit]
    /\ UNCHANGED <<poolVars, asyncVars, genVars, fpc, fcall, histVars, issued,
                   reg, frame>>

\* A variant of the removal that clears the list.
RemoveAll(seq, i) == <<>>

\* Vec::remove(i), 1-based here.
Remove(seq, i) == SubSeq(seq, 1, i - 1) \o SubSeq(seq, i + 1, Len(seq))

\* A variant of the success arm that keeps the identifier the worker left in
\* the artifact.
PromoteKeepsWorkerId(cache, config, data, id) == Put(cache, config, data)

\* A variant of the success arm that rebuilds the cache from the new entry.
PromoteReplaces(cache, config, data, id) ==
    Put(EmptyMap, config, [data EXCEPT !.id = id])

\* update(), the success arm: the artifact gets the next identifier and is
\* inserted under the entry's key.
Promote(cache, config, data, id) == Put(cache, config, [data EXCEPT !.id = id])

\* A variant of update() that moves on when try_recv() found nothing.
IndexAfterEmptyAdvances(i) == i + 1

\* update(): the index after try_recv() found nothing - there is no i += 1
\* on that path.
IndexAfterEmpty(i) == i

\* A variant of update() that advances past the entry that shifted into i.
IndexAfterRemoveSkips(i) == i + 1

\* update(): the index after remove(i) - the entry that shifted into i is next.
IndexAfterRemove(i) == i

\* The keys with an in-flight entry whose channel holds a success.
ReadyKeys ==
    {k \in InflightKeys :
        \E i \in 1..Len(inflight_text_generations) :
            LET e == inflight_text_generations[i]
            IN /\ e.config = k
               /\ chans[e.receiver].buf # <<>>
               /\ Head(chans[e.receiver].buf).ok}

\* TextGenerator::update is entered: i = 0.
UpdateEnter ==
    /\ fpc = "idle"
    /\ fpc' = "update"
    /\ fcall' = [op |-> "update", i |-> 1]
    /\ upd_ready' = ReadyKeys
    /\ UNCHANGED <<poolVars, asyncVars, genVars, ret, upd_ids, first_cached,
                   issued, reg>>

\* A call of TextGenerator::update outside a Ui frame.
UpdateCall == UpdateEnter /\ UNCHANGED frame

\* One evaluation of the while condition of update() and, when it holds, one
\* pass through the loop body.  try_recv() failing (nothing sent yet, or the
\* sender gone) changes neither i nor the list, so the loop tries the same
\* entry again.
UpdateStep ==
    /\ fpc = "update"
    /\ IF fcall.i > Len(inflight_text_generations)
       THEN /\ fpc' = "idle"
            /\ fcall' = NoCall
            /\ ret' = [op |-> "update"]
            /\ upd_ids' = [k \in DOMAIN cached_strings |-> cached_strings[k].id]
            /\ first_cached' =
                  [k \in DOMAIN cached_strings |->
                      IF k \in DOMAIN first_cached THEN first_cached[k]
                      ELSE cached_strings[k]]
            /\ UNCHANGED <<chans, cached_strings, inflight_text_generations,
                           text_buffers_id>>
       ELSE LET inflight == inflight_text_generations[fcall.i]
                c == chans[inflight.receiver]
            IN IF c.buf = <<>>
               THEN /\ fcall' = [fcall EXCEPT !.i = IndexAfterEmpty(@)]
                    /\ UNCHANGED <<fpc, ret, chans, cached_strings,
                                   inflight_text_generations, text_buffers_id,
                                   upd_ids, first_cached>>
               ELSE IF Head(c.buf).ok
               THEN /\ cached_strings' = Promote(cached_strings, inflight.config,
                                                 Head(c.buf).val, text_buffers_id)
                    /\ inflight_text_generations' =
                          Remove(inflight_text_generations, fcall.i)
                    /\ text_buffers_id' = text_buffers_id + 1
                    /\ chans' = [chans EXCEPT ![inflight.receiver].buf = Tail(@),
                                              ![inflight.receiver].receiver = "dropped"]
                    /\ fcall' = [fcall EXCEPT !.i = IndexAfterRemove(@)]
                    /\ UNCHANGED <<fpc, ret, upd_ids, first_cached>>
               ELSE /\ fcall' = [fcall EXCEPT !.i = @ + 1]
                    /\ chans' = [chans EXCEPT ![inflight.receiver].buf = Tail(@)]
                    /\ UNCHANGED <<fpc, ret, cached_strings,
                                   inflight_text_generations, text_buffers_id,
                                   upd_ids, first_cached>>
    /\ UNCHANGED <<callbacks, id_counter, callbacks_lock, queue, wpc, wjob, wres>>
    /\ UNCHANGED <<asyncVars, sync_loaded_fonts, font_id_counter, upd_ready,
                   issued, reg, frame>>

\* ------------------------------------------------------------ the program
\* A panic on the frame thread ends the process, workers included: no step
\* is enabled once fpc = "crashed".
Next ==
    \/ \E w \in Workers : WorkerRecv(w)
    \/ \E w \in Workers : WorkerLock(w)
    \/ \E w \in Workers : WorkerCall(w)
    \/ \E w \in Workers : WorkerBody(w)
    \/ \E w \in Workers : WorkerSend(w)
    \/ AddWorkUnregistered
    \/ AddWorkLock
    \/ AddWorkSend
    \/ \E path \in Paths : LoadFont(path)
    \/ \E t \in Texts, s \in Sizes, f \in FontHandles : QueueGenerateText(t, s, f)
    \/ \E t \in Texts, s \in Sizes, f \in FontHandles : GetText(t, s, f)
    \/ \E t \in Texts, s \in Sizes, f \in FontHandles : MeasureTextSize(t, f, s)
    \/ UpdateCall
    \/ UpdateStep

Spec == Init /\ [][Next]_vars

\* ------------------------------------------------ the backpressure scenario
\* A pool of NumWorkers workers with one registered kind, whose callback
\* locks the shared state (a counter); another thread holds that mutex, so
\* every callback waits inside state.lock() until the mutex is released.
InitBP ==
    /\ callbacks = <<"add_to_counter">>
    /\ id_counter = 1
    /\ callbacks_lock = [owner |-> NoThread, poisoned |-> FALSE]
    /\ queue = <<>>
    /\ chans = <<>>
    /\ wpc = [w \in Workers |-> "recv"]
    /\ wjob = [w \in Workers |-> NoJob]
    /\ wres = [w \in Workers |-> NoJob]
    /\ state_lock = [owner |-> Holder, poisoned |-> FALSE]
    /\ loaded_fonts = 0
    /\ sync_loaded_fonts = EmptyMap
    /\ cached_strings = EmptyMap
    /\ inflight_text_generations = <<>>
    /\ font_id_counter = 1
    /\ text_buffers_id = 1
    /\ fpc = "idle"
    /\ fcall = NoCall
    /\ ret = [op |-> "new"]
    /\ upd_ready = {}
    /\ upd_ids = EmptyMap
    /\ first_cached = EmptyMap
    /\ issued = <<>>
    /\ reg = [t \in Registrars |->
                 [pc |-> "idle", id |-> 0, name |-> "None", returned |-> <<>>]]
    /\ frame = [phase |-> "outside", updates |-> 0]

\* The payloads of the pool's tests: 5usize
\* (test_basic_callback_with_state) and a payload of another type
\* (test_invalid_data_type).
Payloads == {Payload("usize", 5), Payload("String", 0)}

\* The submitter calls add_work(callback_id, data) for the registered kind.
AddWorkBlocking(data) ==
    /\ fpc = "idle"
    /\ Len(chans) < MaxBlockingJobs
    /\ chans' = Append(chans, NewChan(0, data))
    /\ fpc' = "add_work_lock"
    /\ fcall' = [op |-> "add_work", id |-> 0, data |-> data, chan |-> Len(chans) + 1]
    /\ UNCHANGED <<callbacks, id_counter, callbacks_lock, queue, wpc, wjob, wres>>
    /\ UNCHANGED <<asyncVars, genVars, ret, histVars, issued, reg, frame>>

\* The holder drops its guard of the shared-state mutex: the callbacks are
\* released.
Release ==
    /\ fpc # "crashed"
    /\ state_lock.owner = Holder
    /\ state_lock' = [state_lock EXCEPT !.owner = NoThread]
    /\ UNCHANGED <<poolVars, loaded_fonts, genVars, frameVars, histVars, issued,
                   reg, frame>>

NextBP ==
    \/ \E w \in Workers : WorkerRecv(w)
    \/ \E w \in Workers : WorkerLock(w)
    \/ \E w \in Workers : WorkerCall(w)
    \/ \E w \in Workers : WorkerBody(w)
    \/ \E w \in Workers : WorkerSend(w)
    \/ \E data \in Payloads : AddWorkBlocking(data)
    \/ AddWorkLock
    \/ AddWorkSend
    \/ Release

SpecBP == InitBP /\ [][NextBP]_vars

\* ---------------------------------------------------------------- shutdown
\* The owner of the WorkSystem lets it go out of scope, as each test of the
\* pool does at its end: the only Sender of the work queue is dropped.  The
\* frame thread makes no call afterwards.
DropWorkSystem ==
    /\ fpc = "idle"
    /\ fpc' = "dropped"
    /\ UNCHANGED <<poolVars, asyncVars, genVars, fcall, ret, histVars, issued,
                   reg, frame>>

\* A variant of the end of the worker loop in which recv() fails as soon as
\* the Sender is gone, whatever the queue still holds.
WorkerExitDiscards(w) ==
    /\ wpc[w] = "recv"
    /\ fpc = "dropped"
    /\ wpc' = [wpc EXCEPT ![w] = "exited"]
    /\ UNCHANGED <<callbacks, id_counter, callbacks_lock, queue, chans, wjob, wres>>
    /\ UNCHANGED <<asyncVars, genVars, frameVars, histVars, issued, reg, frame>>

\* while let Ok(..) = worker_receiver.recv(): recv() fails once the queue is
\* empty and its Sender is gone; the loop ends and the thread returns.
WorkerExit(w) ==
    /\ wpc[w] = "recv"
    /\ fpc = "dropped"
    /\ queue = <<>>
    /\ wpc' = [wpc EXCEPT ![w] = "exited"]
    /\ UNCHANGED <<callbacks, id_counter, callbacks_lock, queue, chans, wjob, wres>>
    /\ UNCHANGED <<asyncVars, genVars, frameVars, histVars, issued, reg, frame>>

\* The steps of one worker thread.
WorkerStep(w) ==
    \/ WorkerRecv(w)
    \/ WorkerLock(w)
    \/ WorkerCall(w)
    \/ WorkerBody(w)
    \/ WorkerSend(w)
    \/ WorkerExit(w)

NextDrop ==
    \/ \E w \in Workers : WorkerRecv(w)
    \/ \E w \in Workers : WorkerLock(w)
    \/ \E w \in Workers : WorkerCall(w)
    \/ \E w \in Workers : WorkerBody(w)
    \/ \E w \in Workers : WorkerSend(w)
    \/ \E w \in Workers : WorkerExit(w)
    \/ \E data \in Payloads : AddWorkBlocking(data)
    \/ AddWorkLock
    \/ AddWorkSend
    \/ Release
    \/ DropWorkSystem

\* Every thread that can run is scheduled: each worker keeps taking steps,
\* and the holder of the shared-state mutex lets go of it.
SpecDrop ==
    /\ InitBP
    /\ [][NextDrop]_vars
    /\ \A w \in Workers : WF_vars(WorkerStep(w))
    /\ WF_vars(Release)

\* ------------------------------------------------- concurrent registration
\* WorkSystem::new: an empty registry, id_counter at 0, and threads that
\* register callbacks on it at the same time.
InitReg ==
    /\ callbacks = <<>>
    /\ id_counter = 0
    /\ callbacks_lock = [owner |-> NoThread, poisoned |-> FALSE]
    /\ queue = <<>>
    /\ chans = <<>>
    /\ wpc = [w \in Workers |-> "recv"]
    /\ wjob = [w \in Workers |-> NoJob]
    /\ wres = [w \in Workers |-> NoJob]
    /\ state_lock = [owner |-> NoThread, poisoned |-> FALSE]
    /\ loaded_fonts = EmptyMap
    /\ sync_loaded_fonts = EmptyMap
    /\ cached_strings = EmptyMap
    /\ inflight_text_generations = <<>>
    /\ font_id_counter = 1
    /\ text_buffers_id = 1
    /\ fpc = "idle"
    /\ fcall = NoCall
    /\ ret = [op |-> "new"]
    /\ upd_ready = {}
    /\ upd_ids = EmptyMap
    /\ first_cached = EmptyMap
    /\ issued = <<>>
    /\ reg = [t \in Registrars |->
                 [pc |-> "idle", id |-> 0, name |-> "None", returned |-> <<>>]]
    /\ frame = [phase |-> "outside", updates |-> 0]

\* A variant of the registration that pushes the callback at the end of the
\* registry instead of storing it at its id.
RegisterPush(cbs, id, name) == Append(cbs, name)

\* register_callback_with_state under the lock: resize_with(id + 1, || None)
\* when the registry is too short, then callbacks[id] = Some(..).
Register(cbs, id, name) ==
    LET resized == IF id >= Len(cbs)
                   THEN cbs \o [i \in 1..(id + 1 - Len(cbs)) |-> "None"]
                   ELSE cbs
    IN [resized EXCEPT ![id + 1] = name]

\* self.id_counter.fetch_add(1, Ordering::Relaxed): one atomic step.
RegFetchAdd(t, name) ==
    /\ reg[t].pc = "idle"
    /\ Len(reg[t].returned) < MaxRegistrations
    /\ reg' = [reg EXCEPT ![t].pc = "lock", ![t].id = id_counter,
                          ![t].name = name]
    /\ id_counter' = id_counter + 1
    /\ UNCHANGED <<callbacks, callbacks_lock, queue, chans, wpc, wjob, wres>>
    /\ UNCHANGED <<asyncVars, genVars, frameVars, histVars, issued, frame>>

\* self.callbacks.lock().unwrap()
RegLock(t) ==
    /\ reg[t].pc = "lock"
    /\ callbacks_lock.owner = NoThread
    /\ IF callbacks_lock.poisoned
       THEN /\ reg' = [reg EXCEPT ![t].pc = "dead"]
            /\ UNCHANGED callbacks_lock
       ELSE /\ reg' = [reg EXCEPT ![t].pc = "write"]
            /\ callbacks_lock' = [callbacks_lock EXCEPT
                                     !.owner = RegistrarThread(t)]
    /\ UNCHANGED <<callbacks, id_counter, queue, chans, wpc, wjob, wres>>
    /\ UNCHANGED <<asyncVars, genVars, frameVars, histVars, issued, frame>>

\* The resize and the store, then the guard is dropped and the id returned.
RegWrite(t) ==
    /\ reg[t].pc = "write"
    /\ callbacks' = Register(callbacks, reg[t].id, reg[t].name)
    /\ callbacks_lock' = [callbacks_lock EXCEPT !.owner = NoThread]
    /\ reg' = [reg EXCEPT ![t].pc = "idle",
                          ![t].returned = Append(@, [id |-> reg[t].id,
                                                     name |-> reg[t].name])]
    /\ UNCHANGED <<id_counter, queue, chans, wpc, wjob, wres>>
    /\ UNCHANGED <<asyncVars, genVars, frameVars, histVars, issued, frame>>

NextReg ==
    \/ \E t \in Registrars, name \in CallbackNames : RegFetchAdd(t, name)
    \/ \E t \in Registrars : RegLock(t)
    \/ \E t \in Registrars : RegWrite(t)

SpecReg == InitReg /\ [][NextReg]_vars

\* ------------------------------------------------------------ the Ui frame
\* The frame thread drives the TextGenerator through Ui: load_font before the
\* frames, then per frame begin, label for each text of the layout, and end,
\* whose render pass looks every text of the layout up with get_text.
NoFrame == [phase |-> "outside", updates |-> 0]

\* The parts of the state a step of the Ui itself leaves alone.
UiOnly == <<poolVars, asyncVars, genVars, frameVars, histVars, issued, reg>>

\* A variant of Ui::begin without the call of self.update().
UiBeginNoUpdate ==
    /\ frame.phase = "outside"
    /\ fpc = "idle"
    /\ frame' = [phase |-> "frame", updates |-> frame.updates]
    /\ UNCHANGED UiOnly

\* Ui::begin: it sets up the layout and calls self.update(), which calls
\* text_generator.update(); begin returns when that call does.
UiBegin ==
    /\ frame.phase = "outside"
    /\ UpdateEnter
    /\ frame' = [phase |-> "frame", updates |-> frame.updates + 1]

\* Ui::load_font, called before the frames.
UiLoadFont(path) ==
    /\ frame.phase = "outside"
    /\ LoadFont(path)

\* Ui::label: queue_generate_text for the label's text, whose result it ignores.
UiLabel(text, font_size, font_id) ==
    /\ frame.phase = "frame"
    /\ QueueGenerateText(text, font_size, font_id)

\* Ui::end is entered, once begin and the labels have returned.
UiEnd ==
    /\ frame.phase = "frame"
    /\ fpc = "idle"
    /\ frame' = [frame EXCEPT !.phase = "end"]
    /\ UNCHANGED UiOnly

\* clay_tiny_skia_render: one text command of the render pass.
UiRenderText(text, font_size, font_id) ==
    /\ frame.phase = "end"
    /\ GetText(text, font_size, font_id)

\* Ui::end returns: the frame is over.
UiEndReturn ==
    /\ frame.phase = "end"
    /\ fpc = "idle"
    /\ frame' = NoFrame
    /\ UNCHANGED UiOnly

NextUi ==
    \/ \E w \in Workers : WorkerRecv(w)
    \/ \E w \in Workers : WorkerLock(w)
    \/ \E w \in Workers : WorkerCall(w)
    \/ \E w \in Workers : WorkerBody(w)
    \/ \E w \in Workers : WorkerSend(w)
    \/ AddWorkLock
    \/ AddWorkSend
    \/ UpdateStep
    \/ \E path \in Paths : UiLoadFont(path)
    \/ UiBegin
    \/ \E t \in Texts, s \in Sizes, f \in FontHandles : UiLabel(t, s, f)
    \/ UiEnd
    \/ \E t \in Texts, s \in Sizes, f \in FontHandles : UiRenderText(t, s, f)
    \/ UiEndReturn

SpecUi == Init /\ [][NextUi]_vars

\* ================================================================ properties
ChanIds == 1..Len(chans)

\* The submissions of render jobs made so far for a key.
RenderChans(k) ==
    {c \in ChanIds : chans[c].id = gen_text_async_id /\ chans[c].data = k}

\* The frame thread is inside the add_work call that created channel c (or
\* died inside it).
InsideAddWork(c) ==
    /\ fpc \in {"add_work_lock", "add_work_send", "crashed"}
    /\ fcall.chan = c

\* C1: on every response channel returned by add_work, at most one Outcome
\* is ever sent, for registered and unregistered kinds alike.
C1_AtMostOneOutcome ==
    \A c \in ChanIds : chans[c].sent <= 1

\* A render job and an unknown kind have both had their one Outcome sent.
C1_Witness ==
    /\ \E c \in ChanIds : chans[c].id = gen_text_async_id /\ chans[c].sent = 1
    /\ \E c \in ChanIds : chans[c].id = UnregisteredId /\ chans[c].sent = 1

\* C2: an accepted submission always gets its Outcome.  Stated on finite
\* runs: the response sender of an accepted submission is never gone, with
\* the receiver still held by the caller, without an Outcome having been
\* sent on the channel - from such a state none can ever arrive.
C2_AcceptedSubmissionGetsOutcome ==
    \A c \in ChanIds :
        (/\ Lookup(callbacks, chans[c].id) # "None"
         /\ chans[c].sender = "dropped"
         /\ chans[c].receiver = "alive")
        => chans[c].sent = 1

\* The Outcome that running the callback registered under the channel's kind
\* on the channel's payload produces.
ExpectedOutcome(c) ==
    IF chans[c].id = load_font_async_id THEN Ok(Unit)
    ELSE IF chans[c].id = gen_text_async_id
    THEN generate_text(chans[c].data.text,
                       sync_loaded_fonts[chans[c].data.font_handle],
                       chans[c].data.size, LineHeight(chans[c].data.size)).res
    ELSE Err(CallbackNotFound(chans[c].id))

\* C3: the Outcome sent on the channel add_work(k, p) returned is the result
\* of the callback registered under k applied to p, never the result
\* computed for another submission.
C3_OutcomeBelongsToSubmission ==
    \A c \in ChanIds :
        chans[c].sent > 0 =>
            /\ chans[c].id = gen_text_async_id =>
                  chans[c].data.font_handle \in DOMAIN sync_loaded_fonts
            /\ chans[c].outcome = Some(ExpectedOutcome(c))

\* Two render jobs for different keys have both delivered.
C3_Witness ==
    \E c, d \in ChanIds :
        /\ chans[c].id = gen_text_async_id /\ chans[d].id = gen_text_async_id
        /\ chans[c].data # chans[d].data
        /\ chans[c].sent = 1 /\ chans[d].sent = 1

\* C4: once add_work has returned for a kind index that is out of range or
\* whose slot is empty, the channel holds Err(CallbackNotFound(id)), nothing
\* was put on the work queue for it, no worker has it, and no callback was
\* invoked for it.
C4_UnknownKindFailsSynchronously ==
    \A c \in ChanIds :
        (Lookup(callbacks, chans[c].id) = "None" /\ ~InsideAddWork(c)) =>
            /\ chans[c].buf = <<Err(CallbackNotFound(chans[c].id))>>
            /\ chans[c].outcome = Some(Err(CallbackNotFound(chans[c].id)))
            /\ chans[c].invoked = 0
            /\ \A i \in 1..Len(queue) : queue[i].chan # c
            /\ \A w \in Workers : wjob[w] = NoJob \/ wjob[w].chan # c

\* add_work(999, ..) has returned while a worker was inside a job body.
C4_Witness ==
    /\ fpc = "idle"
    /\ ret.op = "add_work"
    /\ chans[ret.chan].sent = 1
    /\ \E w \in Workers : wpc[w] = "body"

\* C5: add_work on an unregistered kind index never has to wait: whenever
\* the caller is at the registry lock, the lock is free.
C5_UnknownKindNeverWaits ==
    (fpc = "add_work_lock" /\ Lookup(callbacks, fcall.id) = "None")
        => callbacks_lock.owner = NoThread

\* C6: the in-flight list holds at most one entry per key, and a
\* queue_generate_text call for a key that is already in flight submits
\* no job.
C6_Dedup ==
    /\ \A i, j \in 1..Len(inflight_text_generations) :
          i # j => inflight_text_generations[i].config
                      # inflight_text_generations[j].config
    /\ \A k \in Keys :
          Cardinality({c \in RenderChans(k) : chans[c].receiver = "alive"}) <= 1

\* C7: a queue_generate_text call returns None as long as no update() has
\* put its key into the cache, and once an update() that began with the
\* key's work complete has returned, every get_text for the key returns an
\* artifact carrying the identifier the key had when that update() returned.
C7_AbsentThenOneIdentifier ==
    /\ ret.op = "queue_generate_text" =>
          (ret.val = None <=> ret.key \notin DOMAIN upd_ids)
    /\ (fpc # "update" /\ ret.op = "get_text" /\ ret.key \in upd_ready) =>
          /\ ret.val.some
          /\ ret.val.val.id = upd_ids[ret.key]

\* get_text returned an artifact for a key that was requested at least
\* twice and whose work was complete when update() began.
C7_Witness ==
    /\ fpc = "idle"
    /\ ret.op = "get_text"
    /\ ret.key \in upd_ready
    /\ ret.val.some
    /\ Cardinality(RenderChans(ret.key)) >= 2

\* C8: from the first moment a call can find a key in cached_strings, every
\* queue_generate_text and get_text call for the key returns that same
\* artifact (identifier and pixels), and queue_generate_text submits
\* nothing for it.
C8_IdempotentOnceCached ==
    (ret.op \in {"queue_generate_text", "get_text"}
        /\ ret.key \in DOMAIN first_cached)
    => /\ ret.val = Some(first_cached[ret.key])
       /\ ret.op = "queue_generate_text" => ~ret.submitted

\* queue_generate_text hit the cache for a key that went through two
\* promotions.
C8_Witness ==
    /\ fpc = "idle"
    /\ ret.op = "queue_generate_text"
    /\ ret.val.some
    /\ Cardinality(RenderChans(ret.key)) >= 2
    /\ text_buffers_id >= 3

\* C9: a key present in cached_strings is present in every later state.
C9_NoEviction ==
    [][\A k \in DOMAIN cached_strings : k \in DOMAIN cached_strings']_vars

\* Two keys are cached and a further update() is running.
C9_Witness ==
    /\ Cardinality(DOMAIN cached_strings) = 2
    /\ fpc = "update"
    /\ ret.op = "get_text"

\* C10: each key moves Absent -> InFlight -> Cached only: it is never in
\* cached_strings and in the in-flight list at once, it enters the cache
\* only from the in-flight list, and an entry is pushed on the in-flight
\* list only for a key that is not in flight already.
C10_PerKeyStateMachine ==
    /\ [](\A k \in InflightKeys : k \notin DOMAIN cached_strings)
    /\ [][\A k \in DOMAIN cached_strings' :
             k \notin DOMAIN cached_strings => k \in InflightKeys]_vars
    /\ [][Len(inflight_text_generations') > Len(inflight_text_generations) =>
             inflight_text_generations'[Len(inflight_text_generations')].config
                 \notin InflightKeys]_vars

\* C11: update() never waits: wherever it stands in its loop, its next step
\* changes its own position or the list, whatever the entry's channel holds
\* (nothing yet, a success, a failure, nothing any more, or a dropped sender).
C11_UpdateNeverWaits ==
    fpc = "update" => ENABLED <<UpdateStep>>_vars

\* The frame thread cannot take its next step inside add_work.
FrameWaits ==
    \/ fpc = "add_work_lock" /\ callbacks_lock.owner # NoThread
    \/ fpc = "add_work_send" /\ ~AllWorkersDead /\ Len(queue) >= QueueCapacity

\* C12: inside load_font and queue_generate_text the frame thread waits only
\* while the work queue is full.
C12_WaitsOnlyOnFullQueue ==
    (fpc \in {"add_work_lock", "add_work_send"}
        /\ fcall.op \in {"load_font", "queue_generate_text"}
        /\ FrameWaits)
    => Len(queue) >= NumWorkers

\* The add_work calls that have returned.
ReturnedCalls == {c \in ChanIds : ~InsideAddWork(c)}

\* The submissions a worker has received from the work queue.
ReceivedJobs ==
    {c \in ChanIds : ~InsideAddWork(c) /\ \A i \in 1..Len(queue) : queue[i].chan # c}

\* C13: backpressure scenario (2 workers, queue capacity 2, callbacks that
\* wait until released): the 1st and the 2nd add_work call never wait, and a
\* later call returns only once a worker has freed a slot for it, so without
\* any worker receiving at most two calls return.
C13_Backpressure ==
    /\ (fpc \in {"add_work_lock", "add_work_send"} /\ fcall.chan <= 2)
          => ~FrameWaits
    /\ Cardinality(ReturnedCalls) <= QueueCapacity + Cardinality(ReceivedJobs)

\* C14: the work queue never holds more than NumWorkers submissions, and an
\* add_work call that stands at its send with NumWorkers submissions queued
\* does not return in that step: a worker has to receive one first.
C14_QueueBound ==
    /\ [](Len(queue) <= NumWorkers)
    /\ [][(fpc = "add_work_send" /\ Len(queue) >= NumWorkers)
             => (fpc' # "idle" /\ Len(queue') <= Len(queue))]_vars

\* An add_work call for a registered kind stands at its send while the queue
\* is full and workers are alive.
C14_Witness ==
    /\ fpc = "add_work_send"
    /\ IsRegistered(callbacks, fcall.id)
    /\ Len(queue) = NumWorkers
    /\ ~AllWorkersDead

\* C15: a load_font call that returns an error changes nothing but its return
\* value: font_id_counter, sync_loaded_fonts, the work pool (no submission,
\* no response channel) and the rest of the generator stay as they were.
C15_FailedLoadChangesNothing ==
    [][(ret' # ret /\ ret'.op = "load_font" /\ ~ret'.val.ok)
          => /\ font_id_counter' = font_id_counter
             /\ sync_loaded_fonts' = sync_loaded_fonts
             /\ chans' = chans /\ queue' = queue
             /\ UNCHANGED <<poolVars, asyncVars, genVars, fpc, fcall>>]_vars

\* A load has failed after an earlier one succeeded: the handle of the first
\* is registered and the counter stands one above it.
C15_Witness ==
    /\ ret.op = "load_font" /\ ~ret.val.ok
    /\ DOMAIN sync_loaded_fonts = {1}
    /\ font_id_counter = 2
    /\ \E c \in ChanIds : chans[c].id = load_font_async_id

\* C16: the handles returned by successful load_font calls are strictly
\* increasing in the order of the calls, hence pairwise distinct: no handle
\* is returned twice.
C16_HandlesStrictlyIncreasing ==
    \A i, j \in DOMAIN issued : i < j => issued[i] < issued[j]

\* Two loads have succeeded and the last load_font call failed.
C16_Witness ==
    /\ Len(issued) >= 2
    /\ ret.op = "load_font" /\ ~ret.val.ok

\* The response channels of the load-font jobs submitted for handle h.
LoadChans(h) ==
    {c \in ChanIds : chans[c].id = load_font_async_id /\ chans[c].data.font_id = h}

\* C17: every handle returned by load_font has exactly one load-font job, and
\* once that job is over - its response sender is gone, so it has run or
\* will never run - the render-side registry contains the handle, with the
\* same font as the measurement-side registry.
C17_LoadJobRegistersHandle ==
    \A i \in DOMAIN issued :
        /\ Cardinality(LoadChans(issued[i])) = 1
        /\ \A c \in LoadChans(issued[i]) :
              chans[c].sender = "dropped" =>
                  /\ issued[i] \in DOMAIN loaded_fonts
                  /\ loaded_fonts[issued[i]] = sync_loaded_fonts[issued[i]]

\* C18: measure_text_size returns None exactly when the handle is not in the
\* synchronous registry, whatever the render-side registry holds; the call
\* can be taken whenever the frame thread is idle, whoever holds the pool's
\* locks, and it changes nothing but its return value: no submission, no
\* change of the cache, the in-flight list or the counters.
C18_MeasureUsesSyncRegistryOnly ==
    /\ [](fpc = "idle" =>
            \A t \in Texts, s \in Sizes, f \in FontHandles :
                ENABLED MeasureTextSize(t, f, s))
    /\ [][(ret' # ret /\ ret'.op = "measure_text_size")
             => /\ ret'.val = None <=> ret'.font_id \notin DOMAIN sync_loaded_fonts
                /\ UNCHANGED <<poolVars, asyncVars, genVars, fpc, fcall>>]_vars

\* A measurement returned a size for a handle whose load-font job has not run,
\* while a worker holds the registry lock.
C18_Witness ==
    /\ ret.op = "measure_text_size"
    /\ ret.val # None
    /\ ret.font_id \notin DOMAIN loaded_fonts
    /\ callbacks_lock.owner # NoThread

\* C19: get_text returns the artifact stored under the key when the key is in
\* cached_strings and None otherwise, and changes nothing but its return
\* value: no submission, no change of the cache, the in-flight list or the
\* counters.
C19_GetTextIsPureProbe ==
    [][(ret' # ret /\ ret'.op = "get_text")
          => /\ ret'.key \in DOMAIN cached_strings
                   => ret'.val = Some(cached_strings[ret'.key])
             /\ ret'.key \notin DOMAIN cached_strings => ret'.val = None
             /\ UNCHANGED <<poolVars, asyncVars, genVars, fpc, fcall>>]_vars

\* get_text returned a cached artifact while a render job for another key is
\* still in flight.
C19_Witness ==
    /\ ret.op = "get_text"
    /\ ret.val # None
    /\ ret.val.val = cached_strings[ret.key]
    /\ inflight_text_generations # <<>>

\* The identifiers of the artifacts in the cache.
CachedIds == {cached_strings[k].id : k \in DOMAIN cached_strings}

\* C20: identifiers are assigned by update() at promotion, not by the worker:
\* an artifact arrives from the worker with identifier 0; every artifact
\* update() puts into cached_strings gets the current text_buffers_id, which
\* is greater than every identifier in the cache and grows with the
\* promotion; so two distinct keys never hold the same identifier.
C20_IdsAssignedAtPromotion ==
    /\ [](\A k1, k2 \in DOMAIN cached_strings :
              k1 # k2 => cached_strings[k1].id # cached_strings[k2].id)
    /\ [](\A id \in CachedIds : id >= 1 /\ id < text_buffers_id)
    /\ [](\A c \in ChanIds :
              (chans[c].id = gen_text_async_id /\ chans[c].buf # <<>>
                  /\ Head(chans[c].buf).ok) => Head(chans[c].buf).val.id = 0)
    /\ [][text_buffers_id' >= text_buffers_id
          /\ \A k \in DOMAIN cached_strings' :
                (k \notin DOMAIN cached_strings
                     \/ cached_strings'[k] # cached_strings[k])
                => /\ cached_strings'[k].id = text_buffers_id
                   /\ text_buffers_id' > text_buffers_id
                   /\ \A id \in CachedIds : id < cached_strings'[k].id]_vars

\* Two keys have been promoted, by different identifiers, and no job is in
\* flight any more.
C20_Witness ==
    /\ Cardinality(DOMAIN cached_strings) = 2
    /\ Cardinality(CachedIds) = 2
    /\ inflight_text_generations = <<>>
    /\ fpc = "idle"

\* The sum of the usize inputs of the first n submissions.
RECURSIVE SumInputs(_)
SumInputs(n) ==
    IF n = 0 THEN 0
    ELSE SumInputs(n - 1)
         + (IF chans[n].data.type = "usize" THEN chans[n].data.val ELSE 0)

\* C21: two submissions of usize inputs a and b, made one after the other to
\* the accumulating callback on a counter that starts at 0, run in
\* submission order: the first one's result is a, the second one's is a + b.
C21_CallbacksRunInSubmissionOrder ==
    (/\ Len(chans) = 2
     /\ chans[1].data.type = "usize"
     /\ chans[2].data.type = "usize")
    => /\ chans[1].outcome # None => chans[1].outcome.val = Ok(SumInputs(1))
       /\ chans[2].outcome # None => chans[2].outcome.val = Ok(SumInputs(2))

\* C22: the callback of an accepted submission is invoked once and no more,
\* and no update of the shared counter is lost: when every submission has
\* delivered its Outcome, each callback has run exactly once and the counter
\* is its initial value 0 plus the sum of the usize inputs.
C22_ExactlyOnceNoLostUpdate ==
    /\ \A c \in ChanIds : chans[c].invoked <= 1
    /\ \A c \in ChanIds : chans[c].outcome # None => chans[c].invoked = 1
    /\ (fpc = "idle" /\ \A c \in ChanIds : chans[c].outcome # None)
          => loaded_fonts = SumInputs(Len(chans))

\* Three submissions or more have all delivered their Outcome, and the first
\* one's callback did not run first.
C22_Witness ==
    /\ fpc = "idle"
    /\ Len(chans) >= 3
    /\ \A c \in ChanIds : chans[c].outcome # None /\ chans[c].data.type = "usize"
    /\ chans[1].outcome.val # Ok(SumInputs(1))
    /\ loaded_fonts = SumInputs(Len(chans))

\* C23: a callback that returns an error value - InvalidDataType for a
\* payload of the wrong type - has exactly that error delivered on the
\* submission's channel, leaves the shared state as it was, and costs no
\* worker: the worker sends the error and goes back to receiving.
C23_ErrorValueIsDelivered ==
    /\ [](\A c \in ChanIds :
              (chans[c].data.type # "usize" /\ chans[c].outcome # None)
                  => chans[c].outcome.val = Err(InvalidDataType))
    /\ [](\A w \in Workers : wpc[w] # "dead")
    /\ [][\A w \in Workers :
              (wpc[w] = "call" /\ wjob[w].data.type # "usize" /\ wpc'[w] # "call")
                  => /\ loaded_fonts' = loaded_fonts
                     /\ wpc'[w] = "send"
                     /\ wres'[w] = Err(InvalidDataType)]_vars
    /\ [][\A w \in Workers :
              (wpc[w] = "send" /\ wpc'[w] # "send") => wpc'[w] = "recv"]_vars

\* The first submission got InvalidDataType, a later one got its sum, and
\* every worker is back at its receive.
C23_Witness ==
    /\ Len(chans) >= 2
    /\ chans[1].outcome = Some(Err(InvalidDataType))
    /\ chans[2].outcome = Some(Ok(5))
    /\ \A w \in Workers : wpc[w] = "recv"

\* C24: registrations made by several threads at the same time return
\* pairwise distinct ids; once all calls have returned, every returned id
\* holds the callback passed in the call that returned it; and a slot, once
\* filled, never changes.
C24_ConcurrentRegistration ==
    /\ [](\A t1, t2 \in Registrars :
            \A k1 \in DOMAIN reg[t1].returned, k2 \in DOMAIN reg[t2].returned :
                (t1 # t2 \/ k1 # k2)
                    => reg[t1].returned[k1].id # reg[t2].returned[k2].id)
    /\ [](( \A t \in Registrars : reg[t].pc = "idle")
            => \A t \in Registrars : \A k \in DOMAIN reg[t].returned :
                  /\ reg[t].returned[k].id < Len(callbacks)
                  /\ callbacks[reg[t].returned[k].id + 1] = reg[t].returned[k].name)
    /\ [][\A i \in 1..Len(callbacks) :
              callbacks[i] # "None"
                  => Len(callbacks') >= i /\ callbacks'[i] = callbacks[i]]_vars

\* A thread has registered at an id while the slot of a smaller id, fetched
\* by another thread, is still empty; a registration has returned.
C24_Witness ==
    /\ \E i \in 1..Len(callbacks) : callbacks[i] = "None"
    /\ \E t \in Registrars : Len(reg[t].returned) >= 1
    /\ \E t \in Registrars : reg[t].pc = "lock"

\* A callback has faulted: the worker that ran it is gone.
CallbackFaulted == \E w \in Workers : wpc[w] = "dead"

\* C25: a fault inside a callback loses no later job: after it, add_work
\* still accepts submissions - a call made after the fault returns to its
\* caller instead of ending in a panic.
C25_FaultLosesNoLaterJob ==
    CallbackFaulted => fpc # "crashed"

\* The workers that are inside a job body, working on the shared state.
InBody == {w \in Workers : wpc[w] = "body"}

\* C26: mutual exclusion on the shared state: a worker inside a job body
\* holds the shared-state mutex, the mutex has one owner, and so no two
\* workers are inside job bodies at the same time, with NumWorkers > 1.
C26_MutualExclusion ==
    /\ NumWorkers > 1
    /\ Cardinality(InBody) <= 1
    /\ \A w \in InBody : state_lock.owner = w

\* One worker is inside a job body while the other holds a submission it has
\* received and waits for its turn.
C26_Witness ==
    \E w1, w2 \in Workers :
        /\ w1 # w2
        /\ wpc[w1] = "body"
        /\ wpc[w2] = "lock"
        /\ wjob[w2] # NoJob

\* C27: every in-flight entry is resolved into the cache by the update()
\* calls of the processing cycles.  In the form a finite run refutes: no
\* in-flight entry is beyond resolution - its channel empty and its sender
\* gone, so that no update() can ever receive an artifact for it.
C27_EveryEntryGetsResolved ==
    \A i \in 1..Len(inflight_text_generations) :
        LET c == chans[inflight_text_generations[i].receiver]
        IN ~(c.sender = "dropped" /\ c.buf = <<>>)

\* The frame thread is inside the add_work call of a queue_generate_text that
\* found its key neither cached nor in flight.
InsideFreshQueueGenerateText ==
    /\ fpc \in {"add_work_lock", "add_work_send"}
    /\ fcall.op = "queue_generate_text"
    /\ ~fcall.was_inflight

\* C28: a queue_generate_text call whose key is neither cached nor in flight
\* creates one response channel for one render job whose payload is the key
\* (font handle, text, size, sub-pixel steps 1/1); when it returns, that one
\* job has been put on the work queue, one in-flight entry pairing the key
\* with that channel has been appended, the cache and both counters are as
\* before, and the call returns None.
C28_MissSubmitsOneJob ==
    /\ [][(fpc = "idle" /\ InsideFreshQueueGenerateText')
             => /\ fcall'.data \in Keys
                /\ fcall'.data \notin DOMAIN cached_strings
                /\ fcall'.data \notin InflightKeys
                /\ chans' = Append(chans,
                                   NewChan(gen_text_async_id, fcall'.data))
                /\ fcall'.chan = Len(chans')
                /\ queue' = queue
                /\ UNCHANGED genVars]_vars
    /\ [][(InsideFreshQueueGenerateText /\ fpc' # "idle")
             => /\ Len(chans') = Len(chans)
                /\ Len(queue') <= Len(queue)
                /\ UNCHANGED genVars]_vars
    /\ [][(InsideFreshQueueGenerateText /\ fpc' = "idle")
             => /\ fpc = "add_work_send"
                /\ queue' = Append(queue, [id |-> gen_text_async_id,
                                           data |-> fcall.data,
                                           chan |-> fcall.chan])
                /\ chans' = chans
                /\ chans[fcall.chan].data = fcall.data
                /\ inflight_text_generations' =
                      Append(inflight_text_generations,
                             [config |-> fcall.data, receiver |-> fcall.chan])
                /\ UNCHANGED <<cached_strings, font_id_counter, text_buffers_id,
                               sync_loaded_fonts>>
                /\ ret'.op = "queue_generate_text"
                /\ ret'.val = None]_vars

\* A queue_generate_text call for a fresh key has returned None while the
\* render job of another key was already in flight.
C28_Witness ==
    /\ fpc = "idle"
    /\ ret.op = "queue_generate_text"
    /\ ret.val = None
    /\ ~ret.was_inflight
    /\ Len(inflight_text_generations) = 2
    /\ inflight_text_generations[2].config = ret.key
    /\ inflight_text_generations[1].config # ret.key

\* update() stands at an in-flight entry.
AtEntry == fpc = "update" /\ fcall.i <= Len(inflight_text_generations)

\* The entry update() stands at, and its response channel.
VisitedEntry == inflight_text_generations[fcall.i]
VisitedChan == chans[VisitedEntry.receiver]

\* The channel of the visited entry holds a success.
VisitedHoldsSuccess ==
    AtEntry /\ VisitedChan.buf # <<>> /\ Head(VisitedChan.buf).ok

\* The step is one of update(): its position or the generator's state changes.
UpdateMoves ==
    /\ fpc = "update"
    /\ <<fpc, fcall, cached_strings, inflight_text_generations,
         text_buffers_id>>' #
       <<fpc, fcall, cached_strings, inflight_text_generations, text_buffers_id>>

\* C29: when update() visits an entry whose channel holds a success, it
\* inserts the artifact under the entry's own key with the identifier
\* text_buffers_id had before the step, adds exactly 1 to text_buffers_id and
\* removes that entry and no other; an entry whose channel holds nothing is
\* left alone, and the list never changes in another way, so the remaining
\* entries keep their order.
C29_PromotionStep ==
    /\ [][(UpdateMoves /\ VisitedHoldsSuccess)
             => /\ cached_strings' =
                      Put(cached_strings, VisitedEntry.config,
                          [Head(VisitedChan.buf).val EXCEPT !.id = text_buffers_id])
                /\ text_buffers_id' = text_buffers_id + 1
                /\ Len(inflight_text_generations') =
                      Len(inflight_text_generations) - 1
                /\ \A j \in 1..Len(inflight_text_generations') :
                      inflight_text_generations'[j] =
                         inflight_text_generations[IF j < fcall.i THEN j ELSE j + 1]
             ]_vars
    /\ [][(fpc = "update" /\ ~VisitedHoldsSuccess)
             => UNCHANGED <<cached_strings, inflight_text_generations,
                            text_buffers_id>>]_vars

\* One entry has been promoted and update() stands at another, whose channel
\* holds nothing yet.
C29_Witness ==
    /\ AtEntry
    /\ VisitedChan.buf = <<>>
    /\ text_buffers_id = 2
    /\ Cardinality(DOMAIN cached_strings) = 1
    /\ VisitedEntry.config \notin DOMAIN cached_strings
    /\ VisitedEntry.config \notin upd_ready

\* The submissions a worker has received whose Outcome is not delivered yet.
HeldChans == {wjob[w].chan : w \in {x \in Workers : wjob[x] # NoJob}}

UpdateEntered == fpc = "idle" /\ fpc' = "update"

\* The frame thread calls queue_generate_text or get_text.
CallOrLookup ==
    /\ fpc = "idle"
    /\ \/ fpc' = "add_work_lock" /\ fcall'.op = "queue_generate_text"
       \/ ret' # ret /\ ret'.op \in {"queue_generate_text", "get_text"}

\* C32: in a frame driven through Ui, update() is entered by begin and by
\* nothing else, so it runs once per frame; every queue_generate_text call
\* and every get_text lookup of the frame comes after that one update() has
\* returned; and a key whose result was complete when begin was called is
\* found by each queue_generate_text and get_text of the frame.
C32_UpdateOncePerFrameBeforeLookups ==
    /\ [][UpdateEntered => frame.phase = "outside" /\ frame'.updates = 1]_vars
    /\ [][CallOrLookup => frame.phase # "outside" /\ frame.updates = 1]_vars
    /\ []((frame.phase # "outside" /\ fpc = "idle"
              /\ ret.op \in {"queue_generate_text", "get_text"}
              /\ ret.key \in upd_ready)
            => ret.val.some)

\* The render pass of a frame has found a text whose render job had delivered
\* its result before the frame's begin.
C32_Witness ==
    /\ frame.phase = "end"
    /\ frame.updates = 1
    /\ ret.op = "get_text"
    /\ ret.key \in upd_ready
    /\ ret.val.some

\* The workers inside the body of job_generate_text whose render job was
\* submitted after the load_font call that returned its font handle.
RenderingLoadedHandle ==
    {w \in Workers :
        /\ wpc[w] = "body"
        /\ Lookup(callbacks, wjob[w].id) = "job_generate_text"
        /\ \E c \in LoadChans(wjob[w].data.font_handle) : c < wjob[w].chan}

\* C33: a render job for a handle that load_font had returned before the job
\* was submitted finds the handle in AsyncState.loaded_fonts when it
\* executes, in every interleaving of the workers.
C33_RenderJobFindsLoadedFont ==
    \A w \in RenderingLoadedHandle :
        wjob[w].data.font_handle \in DOMAIN loaded_fonts

\* The in-flight entries whose channel holds a success.
ReadyEntries(list, cs) ==
    {j \in 1..Len(list) :
        cs[list[j].receiver].buf # <<>> /\ Head(cs[list[j].receiver].buf).ok}

\* update() returns.
UpdateReturns == fpc = "update" /\ fpc' = "idle"

\* C34: update() never looks at an index outside the list; after it removed
\* the entry at i it visits the entry that shifted into i; and when it
\* returns it has skipped nothing: no entry it leaves in the list holds a
\* success, and every key that was ready when it was called is cached.
C34_UpdateSkipsNoEntry ==
    /\ [](fpc = "update" =>
             fcall.i >= 1 /\ fcall.i <= Len(inflight_text_generations) + 1)
    /\ [][(fpc = "update"
             /\ Len(inflight_text_generations') < Len(inflight_text_generations))
          => fcall'.i = fcall.i]_vars
    /\ [][UpdateReturns
          => /\ ReadyEntries(inflight_text_generations', chans') = {}
             /\ upd_ready \subseteq DOMAIN cached_strings']_vars

\* One update() call has promoted two entries that were both ready when it
\* was called, the second one after it shifted into the first one's index.
C34_Witness ==
    /\ fpc = "idle"
    /\ ret.op = "update"
    /\ Cardinality(upd_ready) = 2
    /\ upd_ready \subseteq DOMAIN cached_strings
    /\ text_buffers_id = 3
    /\ inflight_text_generations = <<>>

\* C35: a worker that has a callback's result to deliver is never held up by
\* the response channel: its send can complete at once, whether the submitter
\* still holds the receiver without having polled it or has dropped it, and
\* the step that completes it takes the worker back to its receive.
C35_SendNeverBlocks ==
    /\ [](\A w \in Workers :
             (wpc[w] = "send" /\ fpc # "crashed") => ENABLED WorkerSend(w))
    /\ [][\A w \in Workers :
             (wpc[w] = "send" /\ wpc'[w] # "send")
                => /\ wpc'[w] = "recv"
                   /\ chans'[wjob[w].chan].sender = "dropped"]_vars

\* The load-font job's result was sent after load_font had dropped the
\* receiver, a render job's result lies unpolled in its channel, and a worker
\* has gone on to a later submission.
C35_Witness ==
    /\ \E c \in ChanIds :
          /\ chans[c].id = load_font_async_id
          /\ chans[c].receiver = "dropped"
          /\ chans[c].sender = "dropped"
          /\ chans[c].sent = 0
          /\ chans[c].data.font_id \in DOMAIN loaded_fonts
    /\ \E c \in ChanIds :
          /\ chans[c].id = gen_text_async_id
          /\ chans[c].receiver = "alive"
          /\ Len(chans[c].buf) = 1
          /\ \E w \in Workers : wjob[w] # NoJob /\ wjob[w].chan > c

\* No callback has faulted and no thread has panicked.
NoFault ==
    /\ fpc # "crashed"
    /\ \A w \in Workers : wpc[w] # "dead"
    /\ ~callbacks_lock.poisoned /\ ~state_lock.poisoned

\* Work is pending: a submission is queued or held by a worker, or the frame
\* thread is inside a call.
WorkPending ==
    \/ queue # <<>>
    \/ \E w \in Workers : wjob[w] # NoJob
    \/ fpc # "idle"

\* A step of a worker, or of the call the frame thread is inside.
ThreadStep ==
    \/ \E w \in Workers : WorkerRecv(w)
    \/ \E w \in Workers : WorkerLock(w)
    \/ \E w \in Workers : WorkerCall(w)
    \/ \E w \in Workers : WorkerBody(w)
    \/ \E w \in Workers : WorkerSend(w)
    \/ AddWorkLock
    \/ AddWorkSend
    \/ UpdateStep

\* C36: as long as no callback has faulted, no state is a deadlock: when work
\* is pending, some worker or the frame thread's current call can take a
\* step that changes the state.
C36_DeadlockFreedom ==
    (NoFault /\ WorkPending) => ENABLED <<ThreadStep>>_vars

\* The frame thread waits in add_work for the registry lock and a worker
\* waits for it too, while the other worker runs a callback under both locks.
C36_Witness ==
    /\ NoFault
    /\ fpc = "add_work_lock"
    /\ \E w1, w2 \in Workers :
          /\ wpc[w1] = "body"
          /\ callbacks_lock.owner = w1 /\ state_lock.owner = w1
          /\ wpc[w2] = "lock"

\* The render jobs whose add_work call has returned to queue_generate_text,
\* and those whose in-flight entry update() has promoted (it dropped their
\* receiver with the entry).
SubmittedRenderJobs ==
    {c \in ChanIds : chans[c].id = gen_text_async_id /\ ~InsideAddWork(c)}
PromotedRenderJobs ==
    {c \in ChanIds : chans[c].id = gen_text_async_id /\ chans[c].receiver = "dropped"}

\* C37: the render jobs submitted so far are those in the in-flight list plus
\* those promoted; text_buffers_id is 1 plus the number of promotions; and
\* every identifier in the cache is at least 1 and below text_buffers_id.
C37_Accounting ==
    /\ Cardinality(SubmittedRenderJobs) =
          Len(inflight_text_generations) + Cardinality(PromotedRenderJobs)
    /\ text_buffers_id = 1 + Cardinality(PromotedRenderJobs)
    /\ \A k \in DOMAIN cached_strings :
          cached_strings[k].id >= 1 /\ cached_strings[k].id < text_buffers_id

\* One render job has been promoted, another one is in the in-flight list,
\* and the frame thread is between calls.
C37_Witness ==
    /\ fpc = "idle"
    /\ Cardinality(PromotedRenderJobs) = 1
    /\ Len(inflight_text_generations) = 1
    /\ Cardinality(DOMAIN cached_strings) = 1

\* The handles of the two font registries.
RenderHandles == DOMAIN loaded_fonts
MeasureHandles == DOMAIN sync_loaded_fonts

\* The frame thread is inside a load_font call (or died inside it), after the
\* synchronous load and before self.font_id_counter += 1.
InsideLoadFont ==
    /\ fpc \in {"add_work_lock", "add_work_send", "crashed"}
    /\ fcall.op = "load_font"

\* C38 as stated: in every reachable state the handles of the render-side
\* registry are among those of the measurement-side registry, and every
\* handle in either registry is at least 1 and less than font_id_counter.
C38_RegistriesBelowCounter ==
    /\ RenderHandles \subseteq MeasureHandles
    /\ \A h \in RenderHandles \cup MeasureHandles :
          h >= 1 /\ h < font_id_counter

\* C38, amended: the handles of the render-side registry are among those of
\* the measurement-side registry, and every handle in either registry is at
\* least 1 and less than font_id_counter - except that, while a load_font
\* call is between its synchronous load and its increment of the counter,
\* the handle that call is issuing equals font_id_counter.
C38_RegistriesBelowCounterBetweenCalls ==
    /\ RenderHandles \subseteq MeasureHandles
    /\ \A h \in RenderHandles \cup MeasureHandles :
          /\ h >= 1
          /\ \/ h < font_id_counter
             \/ InsideLoadFont /\ h = fcall.data.font_id /\ h = font_id_counter

\* Handle 1 is in both registries and a second load_font call, which has
\* put handle 2 into the measurement-side registry, waits inside add_work.
C38_Witness ==
    /\ RenderHandles = {1}
    /\ MeasureHandles = {1, 2}
    /\ InsideLoadFont
    /\ fpc # "crashed"
    /\ font_id_counter = 2

\* Every worker thread has left its loop.
AllWorkersExited == \A w \in Workers : wpc[w] = "exited"

\* C39: once the WorkSystem is dropped, a worker leaves its loop only when
\* the queue is empty, so nothing queued is discarded; when all workers have
\* left, every submission has had its callback run once and its Outcome
\* sent; and every worker does leave: none stays in recv() forever.
C39_WorkersDrainThenExit ==
    /\ [][\A w \in Workers :
             (wpc[w] # "exited" /\ wpc'[w] = "exited")
                => fpc = "dropped" /\ queue = <<>> /\ wjob[w] = NoJob]_vars
    /\ [](AllWorkersExited =>
             \A c \in ChanIds : chans[c].invoked = 1 /\ chans[c].sent = 1)
    /\ (fpc = "dropped") ~> AllWorkersExited

\* At least as many submissions as the workers and the queue hold together
\* were made, the WorkSystem was dropped, and the workers have run every
\* callback, delivered every Outcome and exited.
C39_Witness ==
    /\ AllWorkersExited
    /\ Len(chans) >= NumWorkers + QueueCapacity
    /\ \A c \in ChanIds : chans[c].sent = 1
    /\ loaded_fonts = SumInputs(Len(chans))
    /\ loaded_fonts > 0

====
